---- MODULE Spec2Model ----
(***************************************************************************)
(* A model of smart-tree's budgeted tree renderer (src/display): the sort  *)
(* of sibling entries, the per-directory budget and head/tail section      *)
(* planning, and the recursive show_items walk that shares one line        *)
(* counter.  show_items is recursive in the source; here its call stack is *)
(* explicit and every loop iteration is one step.                          *)
(***************************************************************************)
EXTENDS Integers, Naturals, Sequences, FiniteSets, TLC

VARIABLES
    root,             \* the DirectoryEntry handed to format_tree
    config,           \* the DisplayConfig
    pc,               \* "start" | "running" | "done" | "panicked" | "failed"
    children,         \* format_tree's local `children` (clone of root.children, then sorted)
    lines_remaining,  \* DisplayState.lines_remaining
    output,           \* DisplayState.output, one record per line
    depth,            \* DisplayState.depth
    budget_stack,     \* DisplayState.budget_stack
    stack,            \* the frames of the active show_items calls, innermost last
    visits,           \* history: one record per show_items call that passed the early return
    previous,         \* history: what an earlier format_tree call on the same tree returned
    call              \* the arguments and result of a function that is applied on its own

vars == <<root, config, pc, children, lines_remaining, output, depth, budget_stack, stack, visits,
          previous, call>>

(***************************************************************************)
(* Bounds of the explored inputs.                                          *)
(***************************************************************************)
MaxLines == 6        \* max_lines ranges over 0..MaxLines
MaxDirLimit == 3     \* dir_limit ranges over 0..MaxDirLimit
MaxRoot == 4         \* children of the root in the generated trees
MaxSub == 3          \* children of a nested directory in the generated trees
MaxFiles == 19       \* files of the flat / src scenario trees
MaxSortLen == 3      \* length of the slices given to sort_entries on its own
ChainDepth == 20     \* directories of the chain tree, nested one in the other
MaxPlanItems == 6    \* children counts given to the two planners on their own
MaxPlanBudget == 8   \* budgets given to calculate_display_section on its own
MaxPlanDepth == 20   \* depths given to calculate_level_budget on its own
MaxPlanLines == 48   \* lines_remaining given to calculate_level_budget on its own
MaxScanDepth == 3    \* max_depth given to scan_directory ranges over 0..MaxScanDepth
MaxPatterns == 3     \* patterns of one .gitignore file given to is_ignored

(***************************************************************************)
(* usize.  The counter is a 64-bit usize in the source; the explorer's     *)
(* integers are 32 bits wide, so the width is scaled to 29 bits, which     *)
(* keeps three times a usize inside them.  What matters to the behaviour   *)
(* below is that 0 - 1 wraps to the largest value and that the powers of 3 *)
(* leave the range from some exponent on (41 in the source, 19 here).      *)
(***************************************************************************)
UsizeModulus == 536870912
USIZE_MAX == UsizeModulus - 1

Min(a, b) == IF a <= b THEN a ELSE b
Max(a, b) == IF a >= b THEN a ELSE b

saturating_sub(a, b) == IF a >= b THEN a - b ELSE 0
saturating_mul(a, b) == IF a * b > USIZE_MAX THEN USIZE_MAX ELSE a * b
wrapping_sub(a, b) == (a - b + UsizeModulus) % UsizeModulus

None == "None"

TREE_BRANCH == "branch"
TREE_CORNER == "corner"
TREE_VERTICAL == "vertical"
TREE_SPACE == "space"

SortBy == {"Name", "Size", "Modified", "Created"}

(***************************************************************************)
(* sort_entries: slice::sort_by is a stable sort, so the result is the     *)
(* unique stable arrangement under the comparator; it is computed here by  *)
(* stable insertion.                                                       *)
(***************************************************************************)
cmp(x, y) == IF x < y THEN "Less" ELSE IF x > y THEN "Greater" ELSE "Equal"

\* String::cmp: lexicographic on the characters, a proper prefix is smaller.
\* A name is the sequence of its characters' codes.
RECURSIVE cmp_str(_, _)
cmp_str(a, b) ==
    IF a = <<>> THEN (IF b = <<>> THEN "Equal" ELSE "Less")
    ELSE IF b = <<>> THEN "Greater"
    ELSE IF a[1] # b[1] THEN cmp(a[1], b[1])
    ELSE cmp_str(Tail(a), Tail(b))

\* mutant: the size key compared in ascending order
compare_entries_AscSize(a, b, cfg) ==
    IF cfg.dirs_first /\ a.is_dir /\ ~b.is_dir THEN "Less"
    ELSE IF cfg.dirs_first /\ ~a.is_dir /\ b.is_dir THEN "Greater"
    ELSE CASE cfg.sort_by = "Name" -> cmp_str(a.name, b.name)
           [] cfg.sort_by = "Size" -> cmp(a.metadata.size, b.metadata.size)
           [] cfg.sort_by = "Modified" -> cmp(b.metadata.modified, a.metadata.modified)
           [] cfg.sort_by = "Created" -> cmp(b.metadata.created, a.metadata.created)

\* the comparator closure of sort_entries
compare_entries(a, b, cfg) ==
    IF cfg.dirs_first /\ a.is_dir /\ ~b.is_dir THEN "Less"
    ELSE IF cfg.dirs_first /\ ~a.is_dir /\ b.is_dir THEN "Greater"
    ELSE CASE cfg.sort_by = "Name" -> cmp_str(a.name, b.name)
           [] cfg.sort_by = "Size" -> cmp(b.metadata.size, a.metadata.size)
           [] cfg.sort_by = "Modified" -> cmp(b.metadata.modified, a.metadata.modified)
           [] cfg.sort_by = "Created" -> cmp(b.metadata.created, a.metadata.created)

\* number of leading elements of the sorted sequence s that stay before e
InsertPos(s, e, cfg) ==
    Cardinality({i \in 1..Len(s) : compare_entries(e, s[i], cfg) # "Less"})

InsertStable(s, e, cfg) ==
    LET k == InsertPos(s, e, cfg)
    IN  SubSeq(s, 1, k) \o <<e>> \o SubSeq(s, k + 1, Len(s))

RECURSIVE StableSort(_, _)
StableSort(s, cfg) ==
    IF s = <<>> THEN <<>>
    ELSE InsertStable(StableSort(SubSeq(s, 1, Len(s) - 1), cfg), s[Len(s)], cfg)

sort_entries(entries, cfg) == StableSort(entries, cfg)


(***************************************************************************)
(* Outcomes of an operation that may abort: the value, or a panic.         *)
(***************************************************************************)
Ok(v) == [panic |-> FALSE, value |-> v]
Panicked == [panic |-> TRUE, value |-> 0]

\* 3^e on a usize, every multiplication wrapping
RECURSIVE wrapping_pow3(_)
wrapping_pow3(e) == IF e = 0 THEN 1 ELSE (3 * wrapping_pow3(e - 1)) % UsizeModulus

\* some multiplication on the way to 3^e leaves the usize range
pow3_overflows(e) == \E k \in 0..(e - 1) : wrapping_pow3(k) > USIZE_MAX \div 3

\* `3_usize.pow(e)`: past the usize range the power panics when overflow
\* checks are compiled in and wraps when they are not.
pow3(e) ==
    IF pow3_overflows(e) THEN {Panicked, Ok(wrapping_pow3(e))}
    ELSE {Ok(wrapping_pow3(e))}

(***************************************************************************)
(* DisplayState::calculate_level_budget, on (total_items, self.depth,      *)
(* self.lines_remaining): the set of its outcomes.  self.depth counts the  *)
(* active show_items calls, so depth * 2 and 2 + depth * 2 stay far inside *)
(* the usize range; the power of 3 does not.                               *)
(***************************************************************************)
calculate_level_budget(total_items, d, remaining) ==
    IF remaining = 0 \/ total_items = 0 THEN {Ok(0)}
    ELSE LET depth_overhead == saturating_mul(d, 2)
             structure_lines == 2 + depth_overhead
             available == saturating_sub(remaining, structure_lines)
         IN  IF available = 0 THEN {Ok(0)}
             ELSE IF d = 0 THEN {Ok(Max(Min(available, total_items), 1))}
             ELSE { IF level_factor.panic THEN Panicked
                    ELSE Ok(Max(Min(available \div level_factor.value, total_items), 1)) :
                    level_factor \in pow3(d) }

(***************************************************************************)
(* DisplayState::calculate_display_section.                                *)
(***************************************************************************)
\* mutant: everything is shown only when the children are fewer than the budget
calculate_display_section_StrictFit(total, budget) ==
    IF total < budget
    THEN [head_count |-> total, tail_count |-> 0, total_hidden |-> 0]
    ELSE LET available == saturating_sub(budget, 1)
             min_head == 1
             min_tail == IF available > 2 THEN 1 ELSE 0
             remaining == saturating_sub(available, min_head + min_tail)
             additional_head == remaining \div 2
             additional_tail == remaining - additional_head
             head_count == min_head + additional_head
             tail_count == min_tail + additional_tail
         IN  [head_count |-> head_count,
              tail_count |-> tail_count,
              total_hidden |-> saturating_sub(total, head_count + tail_count)]

\* mutant: one tail item is always reserved
calculate_display_section_TailAlways(total, budget) ==
    IF total <= budget
    THEN [head_count |-> total, tail_count |-> 0, total_hidden |-> 0]
    ELSE LET available == saturating_sub(budget, 1)
             min_head == 1
             min_tail == 1
             remaining == saturating_sub(available, min_head + min_tail)
             additional_head == remaining \div 2
             additional_tail == remaining - additional_head
             head_count == min_head + additional_head
             tail_count == min_tail + additional_tail
         IN  [head_count |-> head_count,
              tail_count |-> tail_count,
              total_hidden |-> saturating_sub(total, head_count + tail_count)]

calculate_display_section(total, budget) ==
    IF total <= budget
    THEN [head_count |-> total, tail_count |-> 0, total_hidden |-> 0]
    ELSE LET available == saturating_sub(budget, 1)
             min_head == 1
             min_tail == IF available > 2 THEN 1 ELSE 0
             remaining == saturating_sub(available, min_head + min_tail)
             additional_head == remaining \div 2
             additional_tail == remaining - additional_head
             head_count == min_head + additional_head
             tail_count == min_tail + additional_tail
         IN  [head_count |-> head_count,
              tail_count |-> tail_count,
              total_hidden |-> saturating_sub(total, head_count + tail_count)]

(***************************************************************************)
(* DisplayState::format_entry.  A line is a record of the parts the text   *)
(* is built from: prefix tokens, connector, name, the system marker of an  *)
(* ignored directory and the bracketed filter annotation.  Colours, emoji  *)
(* and the metadata text do not change the line structure and are left     *)
(* out; `path` identifies the entry the line was formatted from.           *)
(***************************************************************************)
\* mutant: the filter annotation printed only with show_filtered on
format_entry_AnnotationWhenShown(entry, ctx, cfg) ==
    [kind |-> "entry",
     prefix |-> ctx.prefix,
     connector |-> IF ctx.is_last THEN TREE_CORNER ELSE TREE_BRANCH,
     name |-> entry.name,
     marker |-> IF entry.is_gitignored /\ entry.is_dir
                THEN (IF cfg.show_system_dirs THEN "[system]" ELSE "[folded: system]")
                ELSE None,
     annotation |-> IF entry.is_gitignored /\ entry.is_dir THEN None
                    ELSE IF cfg.show_filtered THEN entry.filter_annotation
                    ELSE None,
     path |-> entry.path]

format_entry(entry, ctx, cfg) ==
    [kind |-> "entry",
     prefix |-> ctx.prefix,
     connector |-> IF ctx.is_last THEN TREE_CORNER ELSE TREE_BRANCH,
     name |-> entry.name,
     marker |-> IF entry.is_gitignored /\ entry.is_dir
                THEN (IF cfg.show_system_dirs THEN "[system]" ELSE "[folded: system]")
                ELSE None,
     annotation |-> IF entry.is_gitignored /\ entry.is_dir THEN None
                    ELSE entry.filter_annotation,
     path |-> entry.path]

\* the "... N items hidden ..." line of show_items
hidden_line(prefix, section, dir) ==
    [kind |-> "hidden", prefix |-> prefix, connector |-> TREE_BRANCH,
     n |-> section.total_hidden, dir |-> dir]

\* the root marker line of format_tree
RootLine == [kind |-> "root"]

\* mutant: the ignored flag left out of the test
should_skip_FilteredOnly(item, cfg) ==
    item.filtered_by # None /\ ~cfg.show_filtered

\* the `should_skip` test of show_items (same expression in head and tail loop)
should_skip(item, cfg) ==
    (item.is_gitignored /\ ~cfg.show_system_dirs)
    \/ (item.filtered_by # None /\ ~cfg.show_filtered)

\* mutant: the index of the last head item taken one too far
head_is_last_OffByOne(section, i) ==
    /\ section.tail_count = 0
    /\ i = section.head_count
    /\ (section.total_hidden = 0 \/ section.total_hidden = 1)

\* head loop: `is_last` of the i-th (0-based) head item
head_is_last(section, i) ==
    /\ section.tail_count = 0
    /\ i = section.head_count - 1
    /\ (section.total_hidden = 0 \/ section.total_hidden = 1)

\* tail loop: `is_last` of the i-th (0-based) tail item
tail_is_last(section, i) == i = section.tail_count - 1

\* the prefix handed to the recursive call
new_prefix(prefix, is_last) ==
    Append(prefix, IF is_last THEN TREE_SPACE ELSE TREE_VERTICAL)

\* mutant: the hidden-items line also for a single hidden item
hidden_message_needed_AnyHidden(section, remaining) ==
    section.total_hidden > 0 /\ remaining > 0

\* the test that guards the hidden-items line
hidden_message_needed(section, remaining) ==
    section.total_hidden > 1 /\ remaining > 0

\* index (0-based) of the first tail item
tail_start(len, section) == len - section.tail_count

\* `lines_remaining -= 1` on a usize: below zero the subtraction panics when
\* overflow checks are compiled in and wraps when they are not.
SubOne(n) ==
    IF n >= 1 THEN {[panic |-> FALSE, value |-> n - 1]}
    ELSE {[panic |-> TRUE, value |-> n],
          [panic |-> FALSE, value |-> wrapping_sub(n, 1)]}


(***************************************************************************)
(* Input trees.  A DirectoryEntry is a record with the fields of           *)
(* types::DirectoryEntry; timestamps and sizes are natural numbers.  The   *)
(* n-th name stands for "<n>.rs" (the tests' file<n>.rs without the common *)
(* prefix): the decimal digits of n, then the dot, which sorts below every *)
(* digit.  `path` is the list of names from the root, unique per entry.    *)
(***************************************************************************)
DOT == 0
Digit(d) == d + 1
Decimal(n) == IF n < 10 THEN <<Digit(n)>> ELSE <<Digit(n \div 10), Digit(n % 10)>>
Name(n) == Append(Decimal(n), DOT)

Entry(path, name, is_dir, meta, kids, ign, filt) ==
    [path |-> path, name |-> name, is_dir |-> is_dir, metadata |-> meta,
     children |-> kids, is_gitignored |-> ign,
     filtered_by |-> IF filt THEN "rule" ELSE None,
     filter_annotation |-> IF filt THEN "build output" ELSE None]

\* number of the i-th listed sibling out of k: listed ascending or descending
NameAt(i, k, order) == IF order = "asc" THEN i ELSE k + 1 - i

\* metadata of a generated entry: directories are larger than files, files
\* tie on size; modification time follows the number in the name; creation
\* time follows the listing position
MetaOf(i, n, is_dir) ==
    [size |-> IF is_dir THEN 2 ELSE 1, created |-> i, modified |-> n,
     files_count |-> 0]

FileAt(parent, i, k, order) ==
    LET n == NameAt(i, k, order)
    IN  Entry(Append(parent, Name(n)), Name(n), FALSE, MetaOf(i, n, FALSE), <<>>,
              FALSE, FALSE)

Files(parent, k, order) == [i \in 1..k |-> FileAt(parent, i, k, order)]

\* the children of a generated directory at path p: c entries, the first of
\* them a directory of g files when g > 0, the others files
Inner(p, c, g, order) ==
    [i \in 1..c |->
        IF i = 1 /\ g > 0
        THEN LET n == NameAt(i, c, order)
             IN  Entry(Append(p, Name(n)), Name(n), TRUE, MetaOf(i, n, TRUE),
                       Files(Append(p, Name(n)), g, order), FALSE, FALSE)
        ELSE FileAt(p, i, c, order)]

\* a directory listed i-th of k, holding Inner(.., c, g, ..) and carrying `flag`
DirAt(parent, i, k, order, c, g, flag) ==
    LET n == NameAt(i, k, order)
    IN  Entry(Append(parent, Name(n)), Name(n), TRUE, MetaOf(i, n, TRUE),
              Inner(Append(parent, Name(n)), c, g, order),
              flag \in {"gitignored", "both"}, flag \in {"filtered", "both"})

RootOf(kids) == Entry(<<>>, <<DOT>>, TRUE, MetaOf(1, 0, TRUE), kids, FALSE, FALSE)

\* r root children; the dpos-th is a directory (none when dpos = 0)
Tree(r, dpos, c, g, order, flag) ==
    RootOf([i \in 1..r |->
               IF i = dpos THEN DirAt(<<>>, i, r, order, c, g, flag)
               ELSE FileAt(<<>>, i, r, order)])

Orders == {"asc", "desc"}

\* the trees of the test suite: k files under the root, and k files under
\* one directory `src` under the root, listed file1.rs, file2.rs, ...; and
\* the same listed in the opposite order
Flat(k) == Tree(k, 0, 0, 0, "asc", "none")
Src(k) == Tree(1, 1, k, 0, "asc", "none")
SrcListed(k, order) == Tree(1, 1, k, 0, order, "none")

\* a directory numbered n under `parent`, holding kids (built under its path)
DirOf(parent, n, kids) ==
    Entry(Append(parent, Name(n)), Name(n), TRUE, MetaOf(n, n, TRUE), kids, FALSE, FALSE)

FileOf(parent, n) == FileAt(parent, n, n, "asc")

\* two directories under the root: the first holds three files and two
\* directories of one file each, the second a file and a directory whose
\* only child is a directory of one file
TwoDirs ==
    LET a == <<Name(1)>>
        a4 == Append(a, Name(4))
        a5 == Append(a, Name(5))
        b == <<Name(2)>>
        b2 == Append(b, Name(2))
        b21 == Append(b2, Name(1))
    IN  RootOf(<<DirOf(<<>>, 1, <<FileOf(a, 1), FileOf(a, 2), FileOf(a, 3),
                                  DirOf(a, 4, <<FileOf(a4, 1)>>),
                                  DirOf(a, 5, <<FileOf(a5, 1)>>)>>),
                 DirOf(<<>>, 2, <<FileOf(b, 1),
                                  DirOf(b, 2, <<DirOf(b2, 1, <<FileOf(b21, 1)>>)>>)>>)>>)

\* a chain of k directories, each the only child of the one before; the
\* innermost is empty
RECURSIVE ChainFrom(_, _)
ChainFrom(parent, k) ==
    IF k = 0 THEN <<>>
    ELSE <<DirOf(parent, 1, ChainFrom(Append(parent, Name(1)), k - 1))>>

Chain(k) == RootOf(ChainFrom(<<>>, k))

Config(ml, dl, sb, df, ssd, sf) ==
    [max_lines |-> ml, dir_limit |-> dl, sort_by |-> sb, dirs_first |-> df,
     show_system_dirs |-> ssd, show_filtered |-> sf]

\* every sort configuration, on trees without ignored or filtered entries
SortConfigs ==
    { Config(ml, dl, sb, df, FALSE, FALSE) :
        ml \in 0..MaxLines, dl \in 0..MaxDirLimit, sb \in SortBy, df \in BOOLEAN }

\* every display-flag configuration, name-sorted
FlagConfigs ==
    { Config(ml, dl, "Name", FALSE, ssd, sf) :
        ml \in 0..MaxLines, dl \in 0..MaxDirLimit, ssd \in BOOLEAN, sf \in BOOLEAN }

\* the configurations of the test suite (max_lines 5, 10, 20; dir_limit 2, 20)
ScenarioConfigs ==
    { Config(ml, dl, "Name", FALSE, FALSE, FALSE) : ml \in {5, 10, 20}, dl \in {2, 20} }

\* the configurations of the two-directory tree
TwoDirsConfigs ==
    { Config(ml, 20, "Name", FALSE, FALSE, FALSE) : ml \in {17, 18} }

\* the configurations of the chain tree: show_items runs at depth d with
\* max_lines - 1 - d lines left and evaluates the power of 3 when more than
\* 2 + 2 * d of them are left, so the innermost call (depth ChainDepth - 1)
\* evaluates it from max_lines = 3 * ChainDepth + 1 on
ChainConfigs ==
    { Config(ml, 20, "Name", FALSE, FALSE, FALSE) :
        ml \in {3 * ChainDepth, 3 * ChainDepth + 1} }

\* five children under the root: a directory of three entries, the first of
\* them a directory of two files, and then four files; rendered with seven
\* lines, so that the root's section has a tail of two
WideRoot == Tree(5, 1, 3, 2, "asc", "none")
WideRootConfigs ==
    { Config(7, dl, "Name", FALSE, FALSE, FALSE) : dl \in {4, 20} }

\* The inputs of format_tree that are explored:
\*  - trees of files only, and trees with one directory (first or last of
\*    the root's children, itself holding files and possibly a sub-directory
\*    of two files), under every sort configuration;
\*  - the same trees with the directory ignored, filtered or both, under
\*    every display-flag configuration;
\*  - the trees of the test suite under the configurations of the test suite;
\*  - the tree of two directories with nested directories;
\*  - the chain of nested directories;
\*  - the tree of five root children.
InputChosen ==
    \/ \E r \in 0..MaxRoot, order \in Orders, cfg \in SortConfigs :
          root = Tree(r, 0, 0, 0, order, "none") /\ config = cfg
    \/ \E r \in 1..MaxRoot, last \in BOOLEAN, c \in 0..MaxSub, g \in {0, 2},
          order \in Orders, cfg \in SortConfigs :
          root = Tree(r, IF last THEN r ELSE 1, c, g, order, "none") /\ config = cfg
    \/ \E r \in 1..MaxRoot, last \in BOOLEAN, c \in 0..MaxSub, g \in {0, 2},
          order \in Orders, flag \in {"gitignored", "filtered", "both"},
          cfg \in FlagConfigs :
          root = Tree(r, IF last THEN r ELSE 1, c, g, order, flag) /\ config = cfg
    \/ \E k \in 1..MaxFiles, cfg \in ScenarioConfigs :
          root = Flat(k) /\ config = cfg
    \/ \E k \in 1..MaxFiles, order \in Orders, cfg \in ScenarioConfigs :
          root = SrcListed(k, order) /\ config = cfg
    \/ \E cfg \in TwoDirsConfigs :
          root = TwoDirs /\ config = cfg
    \/ \E cfg \in ChainConfigs :
          root = Chain(ChainDepth) /\ config = cfg
    \/ \E cfg \in WideRootConfigs :
          root = WideRoot /\ config = cfg

(***************************************************************************)
(* The state machine of format_tree.                                       *)
(***************************************************************************)
\* no earlier run to compare with; no function applied on its own
NoRun == [ran |-> FALSE]
NoCall == [fn |-> None]

NoSection == [head_count |-> 0, tail_count |-> 0, total_hidden |-> 0]

\* frame of a show_items call that has not yet run its first statement
CallFrame(items, prefix, dir) ==
    [phase |-> "enter", items |-> items, prefix |-> prefix, dir |-> dir,
     section |-> NoSection, i |-> 0, visit |-> 0]

Top == stack[Len(stack)]
Rest == SubSeq(stack, 1, Len(stack) - 1)

\* DisplayState::new(config.max_lines, config)
Init ==
    /\ InputChosen
    /\ pc = "start"
    /\ children = <<>>
    /\ lines_remaining = config.max_lines
    /\ output = <<>>
    /\ depth = 0
    /\ budget_stack = <<config.max_lines>>
    /\ stack = <<>>
    /\ visits = <<>>
    /\ previous = NoRun
    /\ call = NoCall

\* format_tree up to the call of show_items: root marker, decrement, sort
FormatTree ==
    /\ pc = "start"
    /\ output' = Append(output, RootLine)
    /\ \E r \in SubOne(lines_remaining) :
         IF r.panic
         THEN /\ pc' = "panicked"
              /\ UNCHANGED <<children, lines_remaining, stack>>
         ELSE /\ pc' = "running"
              /\ lines_remaining' = r.value
              /\ children' = sort_entries(root.children, config)
              /\ stack' = <<CallFrame(children', <<>>, root.path)>>
    /\ UNCHANGED <<previous, call, root, config, depth, budget_stack, visits>>

\* show_items from its first statement to the start of the head loop
ShowItemsEnter ==
    /\ pc = "running" /\ stack # <<>> /\ Top.phase = "enter"
    /\ IF Top.items = <<>> \/ lines_remaining = 0
       THEN /\ stack' = Rest
            /\ UNCHANGED <<pc, depth, budget_stack, visits>>
       ELSE \E b \in calculate_level_budget(Len(Top.items), depth, lines_remaining) :
            IF b.panic
            THEN /\ pc' = "panicked"
                 /\ UNCHANGED <<depth, budget_stack, visits, stack>>
            ELSE LET budget == b.value
                     section == calculate_display_section(
                                    Len(Top.items), Min(budget, config.dir_limit))
                 IN  /\ depth' = depth + 1
                     /\ budget_stack' = Append(budget_stack, lines_remaining)
                     /\ visits' = Append(visits,
                            [dir |-> Top.dir, items |-> Top.items, depth |-> depth,
                             budget |-> budget, section |-> section,
                             lines_in |-> lines_remaining, returned |-> FALSE,
                             lines_out |-> 0])
                     /\ stack' = Append(Rest,
                            [Top EXCEPT !.phase = "head", !.section = section, !.i = 0,
                                        !.visit = Len(visits) + 1])
                     /\ UNCHANGED pc
    /\ UNCHANGED <<previous, call, root, config, children, lines_remaining, output>>

\* mutant: the entry line emitted without taking a line off the counter
EmitItem_NoDecrement(item, is_last) ==
    LET ctx == [prefix |-> Top.prefix, is_last |-> is_last]
        left == lines_remaining
        caller == [Top EXCEPT !.i = Top.i + 1]
    IN  /\ output' = Append(output, format_entry(item, ctx, config))
        /\ lines_remaining' = left
        /\ IF item.is_dir /\ left > 0 /\ ~should_skip(item, config)
           THEN stack' = Append(Append(Rest, caller),
                    CallFrame(item.children, new_prefix(Top.prefix, is_last), item.path))
           ELSE stack' = Append(Rest, caller)

\* one entry of the head or tail loop: format, emit, decrement, descend
EmitItem(item, is_last) ==
    LET ctx == [prefix |-> Top.prefix, is_last |-> is_last]
        left == lines_remaining - 1
        caller == [Top EXCEPT !.i = Top.i + 1]
    IN  /\ output' = Append(output, format_entry(item, ctx, config))
        /\ lines_remaining' = left
        /\ IF item.is_dir /\ left > 0 /\ ~should_skip(item, config)
           THEN stack' = Append(Append(Rest, caller),
                    CallFrame(item.children, new_prefix(Top.prefix, is_last), item.path))
           ELSE stack' = Append(Rest, caller)

HeadLoopRuns ==
    /\ Top.i < Min(Top.section.head_count, Len(Top.items))
    /\ lines_remaining # 0

\* one iteration of the head loop
ShowHeadItem ==
    /\ pc = "running" /\ stack # <<>> /\ Top.phase = "head"
    /\ HeadLoopRuns
    /\ EmitItem(Top.items[Top.i + 1], head_is_last(Top.section, Top.i))
    /\ UNCHANGED <<previous, call, root, config, pc, children, depth, budget_stack, visits>>

\* after the head loop: the hidden-items line and the test that opens the tail
ShowHiddenMessage ==
    /\ pc = "running" /\ stack # <<>> /\ Top.phase = "head"
    /\ ~HeadLoopRuns
    /\ LET emit == hidden_message_needed(Top.section, lines_remaining)
           left == IF emit THEN lines_remaining - 1 ELSE lines_remaining
           tail == Top.section.tail_count > 0 /\ left > 0
       IN  /\ output' = IF emit
                        THEN Append(output, hidden_line(Top.prefix, Top.section, Top.dir))
                        ELSE output
           /\ lines_remaining' = left
           /\ stack' = Append(Rest,
                  [Top EXCEPT !.phase = IF tail THEN "tail" ELSE "exit", !.i = 0])
    /\ UNCHANGED <<previous, call, root, config, pc, children, depth, budget_stack, visits>>

TailLoopRuns ==
    /\ Top.phase = "tail"
    /\ Top.i < Top.section.tail_count
    /\ lines_remaining # 0

\* one iteration of the tail loop
ShowTailItem ==
    /\ pc = "running" /\ stack # <<>>
    /\ TailLoopRuns
    /\ EmitItem(Top.items[tail_start(Len(Top.items), Top.section) + Top.i + 1],
                tail_is_last(Top.section, Top.i))
    /\ UNCHANGED <<previous, call, root, config, pc, children, depth, budget_stack, visits>>

\* the end of show_items
ShowItemsReturn ==
    /\ pc = "running" /\ stack # <<>>
    /\ Top.phase \in {"tail", "exit"}
    /\ ~TailLoopRuns
    /\ depth' = depth - 1
    /\ budget_stack' = SubSeq(budget_stack, 1, Len(budget_stack) - 1)
    /\ visits' = [visits EXCEPT ![Top.visit].returned = TRUE,
                                ![Top.visit].lines_out = lines_remaining]
    /\ stack' = Rest
    /\ UNCHANGED <<previous, call, root, config, pc, children, lines_remaining, output>>

\* format_tree returns Ok(state.output)
FormatTreeReturn ==
    /\ pc = "running" /\ stack = <<>>
    /\ pc' = "done"
    /\ UNCHANGED <<previous, call, root, config, children, lines_remaining, output, depth,
                   budget_stack, stack, visits>>

Next ==
    \/ FormatTree
    \/ ShowItemsEnter
    \/ ShowHeadItem
    \/ ShowHiddenMessage
    \/ ShowTailItem
    \/ ShowItemsReturn
    \/ FormatTreeReturn

Spec == Init /\ [][Next]_vars


\* The runs whose termination is explored: the name-sorted trees with one
\* directory (first or last under the root, possibly holding a directory
\* of two files), the tree of two directories and the chain.
LiveInputChosen ==
    \/ \E r \in 1..MaxRoot, last \in BOOLEAN, c \in 0..MaxSub, g \in {0, 2},
          ml \in 0..MaxLines, dl \in 0..MaxDirLimit :
          /\ root = Tree(r, IF last THEN r ELSE 1, c, g, "asc", "none")
          /\ config = Config(ml, dl, "Name", FALSE, FALSE, FALSE)
    \/ \E cfg \in TwoDirsConfigs :
          root = TwoDirs /\ config = cfg
    \/ \E cfg \in ChainConfigs :
          root = Chain(ChainDepth) /\ config = cfg

InitLive ==
    /\ LiveInputChosen
    /\ pc = "start"
    /\ children = <<>>
    /\ lines_remaining = config.max_lines
    /\ output = <<>>
    /\ depth = 0
    /\ budget_stack = <<config.max_lines>>
    /\ stack = <<>>
    /\ visits = <<>>
    /\ previous = NoRun
    /\ call = NoCall

\* the steps of a format_tree call that has begun
Running == pc = "running" /\ Next

\* format_tree is sequential code: a call that has begun and can take a
\* step takes it
LiveSpec == InitLive /\ [][Next]_vars /\ WF_vars(Running)

(***************************************************************************)
(* format_tree called again on the same tree with a larger max_lines and   *)
(* the rest of the configuration unchanged; `previous` keeps the number of *)
(* distinct entries the earlier call showed.                               *)
(***************************************************************************)
DistinctEntries(out) ==
    Cardinality({out[k].path : k \in {j \in 1..Len(out) : out[j].kind = "entry"}})

LineChoices == (0..MaxLines) \cup {5, 10, 17, 18, 20}

FormatTreeAgain ==
    /\ pc = "done"
    /\ \E m \in LineChoices :
          /\ m > config.max_lines
          /\ config' = [config EXCEPT !.max_lines = m]
          /\ lines_remaining' = m
          /\ budget_stack' = <<m>>
    /\ previous' = [ran |-> TRUE, max_lines |-> config.max_lines,
                    shown |-> DistinctEntries(output)]
    /\ pc' = "start"
    /\ children' = <<>>
    /\ output' = <<>>
    /\ depth' = 0
    /\ stack' = <<>>
    /\ visits' = <<>>
    /\ UNCHANGED <<root, call>>

NextMono ==
    \/ Next
    \/ FormatTreeAgain

MonoSpec == Init /\ [][NextMono]_vars

(***************************************************************************)
(* sort_entries on its own: a slice of up to MaxSortLen entries, each with *)
(* one of two names ("2.rs", "10.rs"), either kind, one of two sizes and   *)
(* one of two modification times (the creation time is the opposite one),  *)
(* under every sort configuration.                                         *)
(***************************************************************************)
SortEntry(i, e) ==
    Entry(<<<<i>>>>, e.name, e.is_dir,
          [size |-> e.size, created |-> 3 - e.modified, modified |-> e.modified,
           files_count |-> 0],
          <<>>, FALSE, FALSE)

SortEntryChoices ==
    [name : {Name(2), Name(10)}, is_dir : BOOLEAN, size : 1..2, modified : 1..2]

InitSort ==
    /\ \E n \in 0..MaxSortLen :
          \E f \in [1..n -> SortEntryChoices] :
             root = RootOf([i \in 1..n |-> SortEntry(i, f[i])])
    /\ \E sb \in SortBy, df \in BOOLEAN : config = Config(0, 0, sb, df, FALSE, FALSE)
    /\ pc = "start"
    /\ children = root.children
    /\ lines_remaining = 0
    /\ output = <<>>
    /\ depth = 0
    /\ budget_stack = <<>>
    /\ stack = <<>>
    /\ visits = <<>>
    /\ previous = NoRun
    /\ call = NoCall

\* format_tree lines 20-21 alone: sort the cloned children in place
SortEntries ==
    /\ pc = "start"
    /\ children' = sort_entries(children, config)
    /\ pc' = "done"
    /\ UNCHANGED <<previous, call, root, config, lines_remaining, output, depth, budget_stack, stack, visits>>

NextSort == SortEntries

SortSpec == InitSort /\ [][NextSort]_vars

(***************************************************************************)
(* The two planners on their own.  calculate_level_budget reads self.depth *)
(* and self.lines_remaining and takes the number of children;              *)
(* calculate_display_section takes the number of children and a budget.    *)
(* `call` holds the arguments and, after the call, the result.             *)
(***************************************************************************)
PlanLines == (0..MaxPlanLines) \cup {USIZE_MAX}

InitPlan ==
    /\ \/ \E n \in 0..MaxPlanItems, d \in 0..MaxPlanDepth, l \in PlanLines :
             /\ call = [fn |-> "calculate_level_budget", total |-> n, budget |-> 0,
                        result |-> None]
             /\ depth = d
             /\ lines_remaining = l
       \/ \E n \in 0..MaxPlanItems, b \in 0..MaxPlanBudget :
             /\ call = [fn |-> "calculate_display_section", total |-> n, budget |-> b,
                        result |-> None]
             /\ depth = 0
             /\ lines_remaining = 0
    /\ root = RootOf(<<>>)
    /\ config = Config(0, 0, "Name", FALSE, FALSE, FALSE)
    /\ pc = "start"
    /\ children = <<>>
    /\ output = <<>>
    /\ budget_stack = <<>>
    /\ stack = <<>>
    /\ visits = <<>>
    /\ previous = NoRun

CalculateLevelBudget ==
    /\ pc = "start" /\ call.fn = "calculate_level_budget"
    /\ \E b \in calculate_level_budget(call.total, depth, lines_remaining) :
          /\ call' = [call EXCEPT !.result = b]
          /\ pc' = IF b.panic THEN "panicked" ELSE "done"
    /\ UNCHANGED <<root, config, children, lines_remaining, output, depth, budget_stack,
                   stack, visits, previous>>

CalculateDisplaySection ==
    /\ pc = "start" /\ call.fn = "calculate_display_section"
    /\ call' = [call EXCEPT !.result = calculate_display_section(call.total, call.budget)]
    /\ pc' = "done"
    /\ UNCHANGED <<root, config, children, lines_remaining, output, depth, budget_stack,
                   stack, visits, previous>>

NextPlan ==
    \/ CalculateLevelBudget
    \/ CalculateDisplaySection

PlanSpec == InitPlan /\ [][NextPlan]_vars

(***************************************************************************)
(* scan_directory (src/scanner.rs).  The file system is a tree of nodes;   *)
(* a node records what the system calls of the scan answer for it:         *)
(*   metadata_ok        fs::metadata(path) succeeds                        *)
(*   entry_metadata_ok  DirEntry::metadata() succeeds for it in its        *)
(*                      parent's listing                                   *)
(*   times_ok           Metadata::created() and modified() succeed         *)
(*   read_dir_ok        fs::read_dir(path) succeeds                        *)
(*   ignored            GitIgnoreContext::is_ignored(path)                 *)
(*   hidden_as_root     FilterRegistry::should_hide in the context built   *)
(*                      when the node is the `root` of a call              *)
(*   hidden_as_entry    the same in the context built by its parent's loop *)
(* A scan returns Result<DirectoryEntry>: [ok, entry].                     *)
(***************************************************************************)
FsNode(n, is_dir, len, kids) ==
    [name |-> Name(n), is_dir |-> is_dir, len |-> len, created |-> n, modified |-> n,
     entries |-> kids, metadata_ok |-> TRUE, entry_metadata_ok |-> TRUE,
     times_ok |-> TRUE, read_dir_ok |-> TRUE, ignored |-> FALSE,
     hidden_as_root |-> FALSE, hidden_as_entry |-> FALSE]

ScanOk(e) == [ok |-> TRUE, entry |-> e]
ScanErr == [ok |-> FALSE, entry |-> None]

\* Path::canonicalize: the paths of the model hold no symlink and no `..`,
\* so an existing path is its own canonical form; when the call fails the
\* source falls back to the path itself
canonicalize(path) == path

is_direct_path(path) == canonicalize(path) = canonicalize(path)

\* the quick scan of a skipped directory: [files_count, size]
RECURSIVE quick_scan(_, _, _, _)
quick_scan(node, i, file_count, total_size) ==
    IF ~node.read_dir_ok \/ i > Len(node.entries)
    THEN [files_count |-> file_count,
          size |-> IF total_size = 0 /\ file_count > 0 THEN 1024 * 1024 ELSE total_size]
    ELSE LET e == node.entries[i]
         IN  IF ~e.entry_metadata_ok THEN quick_scan(node, i + 1, file_count, total_size)
             ELSE quick_scan(node, i + 1,
                             IF e.is_dir THEN file_count + 10 ELSE file_count + 1,
                             total_size + e.len)

\* a DirectoryEntry without children
LeafEntry(path, node, name, hidden) ==
    Entry(path, name, node.is_dir,
          [size |-> node.len, created |-> node.created, modified |-> node.modified,
           files_count |-> 0],
          <<>>, node.ignored, hidden)

\* root_entry after one more child was pushed
Pushed(root_entry, child, files, size) ==
    [root_entry EXCEPT !.children = Append(@, child),
                       !.metadata.files_count = @ + files,
                       !.metadata.size = @ + size]

RECURSIVE scan_directory(_, _, _, _, _, _)
RECURSIVE scan_entries(_, _, _, _, _, _, _)

\* the loop over fs::read_dir(root) from its i-th entry on
scan_entries(path, node, i, root_entry, max_depth, show_system, show_hidden) ==
    IF i > Len(node.entries) THEN ScanOk(root_entry)
    ELSE LET e == node.entries[i]
             p == Append(path, e.name)
         IN  IF ~e.entry_metadata_ok THEN ScanErr
             ELSE IF e.is_dir /\ max_depth > 1
             THEN LET r == scan_directory(p, e, e.name, max_depth - 1, show_system,
                                          show_hidden)
                  IN  scan_entries(path, node, i + 1,
                                   IF r.ok
                                   THEN Pushed(root_entry, r.entry,
                                               r.entry.metadata.files_count,
                                               r.entry.metadata.size)
                                   ELSE root_entry,
                                   max_depth, show_system, show_hidden)
             ELSE IF ~e.times_ok THEN ScanErr
             ELSE scan_entries(path, node, i + 1,
                               Pushed(root_entry, LeafEntry(p, e, e.name, e.hidden_as_entry),
                                      IF e.is_dir THEN 0 ELSE 1, e.len),
                               max_depth, show_system, show_hidden)

scan_directory(path, node, root_name, max_depth, show_system, show_hidden) ==
    IF ~node.metadata_ok THEN ScanErr
    ELSE IF ~node.is_dir \/ max_depth = 0
    THEN (IF node.times_ok THEN ScanOk(LeafEntry(path, node, root_name, node.hidden_as_root))
          ELSE ScanErr)
    ELSE IF ~node.times_ok THEN ScanErr
    ELSE LET should_filter == \/ node.ignored /\ ~show_system
                              \/ node.hidden_as_root /\ ~show_hidden
             root_entry == [LeafEntry(path, node, root_name, node.hidden_as_root)
                               EXCEPT !.metadata.size = 0]
             skip_traversal == should_filter /\ ~is_direct_path(path)
         IN  IF skip_traversal
             THEN LET q == quick_scan(node, 1, 0, 0)
                  IN  ScanOk([root_entry EXCEPT !.metadata.files_count = q.files_count,
                                                !.metadata.size = q.size])
             ELSE IF ~node.read_dir_ok THEN ScanErr
             ELSE scan_entries(path, node, 1, root_entry, max_depth, show_system,
                               show_hidden)

(***************************************************************************)
(* The scan on its own, as main calls it on the path of the command line.  *)
(* The scanned directory holds a file, a directory `sub` and a file; `sub` *)
(* holds a file and a directory of one file.  The answers of the system    *)
(* calls vary on the root, on `sub`, on its two entries and on the file    *)
(* listed after it.                                                        *)
(***************************************************************************)
Flagged(node, meta, entry_meta, times, read) ==
    [node EXCEPT !.metadata_ok = meta, !.entry_metadata_ok = entry_meta,
                 !.times_ok = times, !.read_dir_ok = read]

ScanFs(root_flags, sub_flags, sub_hidden, inner_ok, last_ok) ==
    LET inner_file == Flagged(FsNode(1, FALSE, 1, <<>>), TRUE, inner_ok[1], TRUE, TRUE)
        inner_dir == Flagged(FsNode(2, TRUE, 2, <<FsNode(1, FALSE, 1, <<>>)>>),
                             TRUE, TRUE, TRUE, inner_ok[2])
        sub == [Flagged(FsNode(2, TRUE, 2, <<inner_file, inner_dir>>),
                        sub_flags[1], sub_flags[2], sub_flags[3], sub_flags[4])
                   EXCEPT !.ignored = sub_hidden[1], !.hidden_as_root = sub_hidden[2],
                          !.hidden_as_entry = sub_hidden[2]]
        last == Flagged(FsNode(3, FALSE, 1, <<>>), TRUE, last_ok, TRUE, TRUE)
    IN  Flagged([FsNode(0, TRUE, 2, <<FsNode(1, FALSE, 1, <<>>), sub, last>>)
                    EXCEPT !.name = <<DOT>>],
                root_flags[1], TRUE, TRUE, root_flags[2])

InitScan ==
    /\ \E root_flags \in [1..2 -> BOOLEAN], sub_flags \in [1..4 -> BOOLEAN],
          sub_hidden \in [1..2 -> BOOLEAN], inner_ok \in [1..2 -> BOOLEAN],
          last_ok \in BOOLEAN, d \in 0..MaxScanDepth, ssd \in BOOLEAN, sf \in BOOLEAN :
          /\ call = [fn |-> "scan_directory",
                     fs |-> ScanFs(root_flags, sub_flags, sub_hidden, inner_ok, last_ok),
                     max_depth |-> d, result |-> None]
          /\ config = Config(0, 0, "Name", FALSE, ssd, sf)
    /\ root = RootOf(<<>>)
    /\ pc = "start"
    /\ children = <<>>
    /\ lines_remaining = 0
    /\ output = <<>>
    /\ depth = 0
    /\ budget_stack = <<>>
    /\ stack = <<>>
    /\ visits = <<>>
    /\ previous = NoRun

\* main: `let root = scan_directory(&args.path, ...)?`
ScanDirectory ==
    /\ pc = "start" /\ call.fn = "scan_directory"
    /\ LET r == scan_directory(<<>>, call.fs, call.fs.name, call.max_depth,
                               config.show_system_dirs, config.show_filtered)
       IN  /\ call' = [call EXCEPT !.result = r]
           /\ root' = IF r.ok THEN r.entry ELSE root
           /\ pc' = IF r.ok THEN "done" ELSE "failed"
    /\ UNCHANGED <<config, children, lines_remaining, output, depth, budget_stack, stack,
                   visits, previous>>

NextScan == ScanDirectory

ScanSpec == InitScan /\ [][NextScan]_vars

(***************************************************************************)
(* The ignore verdict (src/gitignore.rs) for one path.  A pattern is the   *)
(* pair the loader stores, (Pattern, is_negated), with the verdict of      *)
(* Pattern::matches on the path in place of the glob: [matches,            *)
(* is_negated].  A GitIgnore is [is_root, system_match, patterns], where   *)
(* system_match says that one of its system_patterns matches the path; in  *)
(* the chain of directories it carries `loaded`, which says that the       *)
(* context holds a GitIgnore for the directory.  ignore_cache is the set   *)
(* of the verdicts cached for the path: empty, or the one verdict.         *)
(***************************************************************************)
RECURSIVE last_match(_, _, _)
\* the loop `for (pattern, is_negated) in &self.patterns` from index i on
last_match(patterns, i, ignored) ==
    IF i > Len(patterns) THEN ignored
    ELSE last_match(patterns, i + 1,
                    IF patterns[i].matches THEN ~patterns[i].is_negated ELSE ignored)

\* GitIgnore::is_path_ignored
is_path_ignored(gitignore) ==
    IF gitignore.is_root /\ gitignore.system_match THEN TRUE
    ELSE last_match(gitignore.patterns, 1, FALSE)

\* GitIgnoreContext::is_ignored, the body of the loop over dir_chain for a
\* directory that has a GitIgnore: the file's verdict can only set the
\* flag, and any matching negated pattern of the file then clears it
verdict_after(gitignore, is_ignored) ==
    LET after_file == IF is_path_ignored(gitignore) THEN TRUE ELSE is_ignored
    IN  IF \E i \in 1..Len(gitignore.patterns) :
              gitignore.patterns[i].is_negated /\ gitignore.patterns[i].matches
        THEN FALSE
        ELSE after_file

RECURSIVE chain_verdict(_, _, _)
\* the loop over dir_chain, root first
chain_verdict(gitignores, i, is_ignored) ==
    IF i > Len(gitignores) THEN is_ignored
    ELSE chain_verdict(gitignores, i + 1,
                       IF ~gitignores[i].loaded THEN is_ignored
                       ELSE verdict_after(gitignores[i], is_ignored))

\* GitIgnoreContext::is_ignored: [result, ignore_cache]
is_ignored(gitignores, ignore_cache) ==
    IF ignore_cache # {}
    THEN [result |-> CHOOSE cached \in ignore_cache : TRUE, ignore_cache |-> ignore_cache]
    ELSE LET v == chain_verdict(gitignores, 1, FALSE)
         IN  [result |-> v, ignore_cache |-> {v}]

(***************************************************************************)
(* The verdict on its own: a context with the root's file, asked twice     *)
(* about a path that lies in the root or in a directory under it, which    *)
(* has a file of its own or none.                                          *)
(***************************************************************************)
GitIgnoreOf(is_root, sys, patterns, loaded) ==
    [is_root |-> is_root, system_match |-> sys, patterns |-> patterns, loaded |-> loaded]

PatternLists ==
    UNION { [1..n -> [matches : BOOLEAN, is_negated : BOOLEAN]] : n \in 0..MaxPatterns }

InitGit ==
    /\ \E ps \in PatternLists, sys \in BOOLEAN, where \in {"root", "nested", "bare"},
          qs \in PatternLists :
          /\ where = "nested" \/ qs = <<>>
          /\ call = [fn |-> "is_ignored",
                     gitignores |->
                        <<GitIgnoreOf(TRUE, sys, ps, TRUE)>>
                        \o (IF where = "root" THEN <<>>
                            ELSE <<GitIgnoreOf(FALSE, FALSE, qs, where = "nested")>>),
                     ignore_cache |-> {}, calls |-> 0, result |-> None]
    /\ root = RootOf(<<>>)
    /\ config = Config(0, 0, "Name", FALSE, FALSE, FALSE)
    /\ pc = "start"
    /\ children = <<>>
    /\ lines_remaining = 0
    /\ output = <<>>
    /\ depth = 0
    /\ budget_stack = <<>>
    /\ stack = <<>>
    /\ visits = <<>>
    /\ previous = NoRun

\* one call of GitIgnoreContext::is_ignored on the path
IsIgnored ==
    /\ call.fn = "is_ignored" /\ call.calls < 2
    /\ LET r == is_ignored(call.gitignores, call.ignore_cache)
       IN  call' = [call EXCEPT !.result = r.result, !.ignore_cache = r.ignore_cache,
                                !.calls = @ + 1]
    /\ pc' = "done"
    /\ UNCHANGED <<root, config, children, lines_remaining, output, depth, budget_stack,
                   stack, visits, previous>>

NextGit == IsIgnored

GitSpec == InitGit /\ [][NextGit]_vars

(***************************************************************************)
(* Vocabulary of the properties.  The statements of C3, C7-C9, C11, C19,   *)
(* C21, C23 and C25-C28 are taken over the runs with max_lines >= 1, so    *)
(* that what refutes them is independent of the underflow at               *)
(* max_lines = 0 (C1, C2).                                                 *)
(***************************************************************************)
Lines == 1..Len(output)

\* the entry at path p has an entry line in the output
EntryShown(p) == \E k \in Lines : output[k].kind = "entry" /\ output[k].path = p

\* the output holds a hidden-items line of directory dir
HiddenShown(dir) == \E k \in Lines : output[k].kind = "hidden" /\ output[k].dir = dir

LineOfEntry(p) == CHOOSE k \in Lines : output[k].kind = "entry" /\ output[k].path = p
LineOfHidden(dir) == CHOOSE k \in Lines : output[k].kind = "hidden" /\ output[k].dir = dir

\* the show_items calls that have run to their end
Returned == {v \in 1..Len(visits) : visits[v].returned}

\* the lines of the output that belong to the children of `dir`: name of an
\* entry line, the count of a hidden-items line
RECURSIVE DirLinesFrom(_, _)
DirLinesFrom(dir, k) ==
    IF k > Len(output) THEN <<>>
    ELSE LET l == output[k]
         IN  (IF l.kind = "entry" /\ SubSeq(l.path, 1, Len(l.path) - 1) = dir
                 THEN <<[kind |-> "entry", name |-> l.name]>>
              ELSE IF l.kind = "hidden" /\ l.dir = dir
                 THEN <<[kind |-> "hidden", n |-> l.n]>>
              ELSE <<>>) \o DirLinesFrom(dir, k + 1)

DirLines(dir) == DirLinesFrom(dir, 1)
FileLine(n) == [kind |-> "entry", name |-> Name(n)]
HiddenLine(n) == [kind |-> "hidden", n |-> n]

\* the directory of the k-file scenario trees that holds the files
FilesDirOf(tree) == IF tree.children[1].is_dir THEN tree.children[1].path ELSE <<>>

(***************************************************************************)
(* C1.  For every tree and configuration the text returned by format_tree  *)
(* has at most max_lines lines, the root marker included.                  *)
(***************************************************************************)
C1_LineBound == pc = "done" => Len(output) <= config.max_lines

(***************************************************************************)
(* C2.  With max_lines = 0 format_tree returns normally: the counter is    *)
(* never taken below zero (no panic, no wrap-around) and the output is     *)
(* empty or the root marker alone.                                         *)
(***************************************************************************)
C2_ZeroBudget ==
    config.max_lines = 0 =>
        /\ pc # "panicked"
        /\ lines_remaining <= config.max_lines
        /\ pc = "done" => output \in {<<>>, <<RootLine>>}

(***************************************************************************)
(* C3.  A directory visit whose section has exactly one hidden child emits *)
(* no summary line and, while lines remain, emits that child too, so all   *)
(* children of the directory appear.                                       *)
(***************************************************************************)
C3_SingleHiddenShown ==
    \A v \in Returned :
        (visits[v].section.total_hidden = 1 /\ config.max_lines >= 1) =>
            /\ ~HiddenShown(visits[v].dir)
            /\ visits[v].lines_out > 0 =>
                   \A i \in 1..Len(visits[v].items) : EntryShown(visits[v].items[i].path)

(***************************************************************************)
(* C4.  A hidden-items summary line is emitted only with N >= 2: no line   *)
(* of the output reports exactly one (or no) hidden item.                  *)
(***************************************************************************)
C4_SummaryAtLeastTwo ==
    \A k \in Lines : output[k].kind = "hidden" => output[k].n >= 2

\* a summary line at the boundary: exactly two items hidden
C4_Witness ==
    \E k \in Lines : output[k].kind = "hidden" /\ output[k].n = 2

(***************************************************************************)
(* C5.  A directory with exactly 3 child files, rendered with dir_limit 2  *)
(* and max_lines 5 (or more), shows all 3 files and no hidden-items line.  *)
(***************************************************************************)
C5_ThreeFilesAllShown ==
    (/\ pc = "done"
     /\ root \in {Flat(3), Src(3)}
     /\ config.dir_limit = 2
     /\ config.max_lines >= 5)
    => DirLines(FilesDirOf(root)) = <<FileLine(1), FileLine(2), FileLine(3)>>

(***************************************************************************)
(* C6.  A directory with exactly 4 child files, rendered with dir_limit 2, *)
(* shows the first file, a summary of 2 hidden items, then the fourth.     *)
(***************************************************************************)
C6_FourFilesHeadTail ==
    (/\ pc = "done"
     /\ root \in {Flat(4), Src(4)}
     /\ config.dir_limit = 2
     /\ config.max_lines >= 5)
    => DirLines(FilesDirOf(root)) = <<FileLine(1), HiddenLine(2), FileLine(4)>>


(***************************************************************************)
(* C7.  Head/tail display: whenever a hidden-items line is emitted for a   *)
(* directory, the first child of its list is emitted before that line and  *)
(* the last child of the list after it.                                    *)
(***************************************************************************)
C7_HeadTailShown ==
    \A v \in Returned :
        (HiddenShown(visits[v].dir) /\ config.max_lines >= 1) =>
            LET items == visits[v].items
                first == items[1].path
                last == items[Len(items)].path
                summary == LineOfHidden(visits[v].dir)
            IN  /\ EntryShown(first) /\ LineOfEntry(first) < summary
                /\ EntryShown(last) /\ LineOfEntry(last) > summary

ShownIn(items, from, to) == {i \in from..to : EntryShown(items[i].path)}
MaxOf(S) == CHOOSE x \in S : \A y \in S : y <= x
MinOf(S) == CHOOSE x \in S : \A y \in S : x <= y

(***************************************************************************)
(* C8.  Order context: in every directory visit, at any depth, in which    *)
(* some children are hidden, the last shown head child sorts at or before  *)
(* every hidden child and the first shown tail child sorts at or after     *)
(* every hidden child, under the active sort key and dirs_first policy.    *)
(***************************************************************************)
C8_OrderContext ==
    \A v \in Returned :
        (visits[v].section.total_hidden > 0 /\ config.max_lines >= 1) =>
            LET items == visits[v].items
                sec == visits[v].section
                hidden == (sec.head_count + 1)..(Len(items) - sec.tail_count)
                heads == ShownIn(items, 1, sec.head_count)
                tails == ShownIn(items, Len(items) - sec.tail_count + 1, Len(items))
            IN  /\ heads # {} =>
                     \A h \in hidden :
                        compare_entries(items[MaxOf(heads)], items[h], config) # "Greater"
                /\ tails # {} =>
                     \A h \in hidden :
                        compare_entries(items[MinOf(tails)], items[h], config) # "Less"

(***************************************************************************)
(* C9.  Every sibling group format_tree renders, nested as well as root,   *)
(* is emitted in the order sort_entries gives: of two emitted children of  *)
(* one directory the earlier never sorts after the later.                  *)
(***************************************************************************)
C9_SiblingsSorted ==
    \A v \in 1..Len(visits) :
        config.max_lines >= 1 =>
            \A i, j \in 1..Len(visits[v].items) :
                (/\ i < j
                 /\ EntryShown(visits[v].items[i].path)
                 /\ EntryShown(visits[v].items[j].path))
                => /\ LineOfEntry(visits[v].items[i].path) < LineOfEntry(visits[v].items[j].path)
                   /\ compare_entries(visits[v].items[i], visits[v].items[j], config) # "Greater"

IsPrefix(a, b) == Len(a) <= Len(b) /\ SubSeq(b, 1, Len(a)) = a

\* a is lexicographically at or before b
LexLeq(a, b) ==
    \/ IsPrefix(a, b)
    \/ \E k \in 1..Min(Len(a), Len(b)) :
          SubSeq(a, 1, k - 1) = SubSeq(b, 1, k - 1) /\ a[k] < b[k]

\* x may stand before y under the sort key alone
KeyLeq(x, y) ==
    CASE config.sort_by = "Name" -> LexLeq(x.name, y.name)
      [] config.sort_by = "Size" -> x.metadata.size >= y.metadata.size
      [] config.sort_by = "Modified" -> x.metadata.modified >= y.metadata.modified
      [] config.sort_by = "Created" -> x.metadata.created >= y.metadata.created

SamePartition(x, y) == ~config.dirs_first \/ x.is_dir = y.is_dir

\* position of the entry in the input slice
InputIndex(x) == CHOOSE i \in 1..Len(root.children) : root.children[i] = x

Range(f) == {f[i] : i \in DOMAIN f}

(***************************************************************************)
(* C10.  sort_entries yields a permutation of its input in which (a) with  *)
(* dirs_first every directory precedes every file, (b) inside a partition  *)
(* (everywhere without dirs_first) entries ascend by name for the key name *)
(* and descend by size / modified / created for the other keys, and (c)    *)
(* entries that compare equal keep their input order.                      *)
(***************************************************************************)
C10_SortContract ==
    pc = "done" =>
        /\ Len(children) = Len(root.children)
        /\ Range(children) = Range(root.children)
        /\ \A i, j \in 1..Len(children) :
              i < j =>
                 LET x == children[i]
                     y == children[j]
                 IN  /\ config.dirs_first => ~(~x.is_dir /\ y.is_dir)
                     /\ SamePartition(x, y) => KeyLeq(x, y)
                     /\ (SamePartition(x, y) /\ KeyLeq(y, x)) =>
                            InputIndex(x) < InputIndex(y)

\* a sorted slice that was reordered, with directories moved to the front
\* and two entries of one partition that tie on the key
C10_Witness ==
    /\ pc = "done"
    /\ children # root.children
    /\ config.dirs_first
    /\ \E i, j \in 1..Len(children) :
          /\ i < j
          /\ children[i].is_dir = children[j].is_dir
          /\ KeyLeq(children[i], children[j]) /\ KeyLeq(children[j], children[i])
    /\ \E i, j \in 1..Len(children) : children[i].is_dir /\ ~children[j].is_dir

(***************************************************************************)
(* C11.  Monotonicity in the budget: for every tree and every pair         *)
(* max_lines = m < m' with the rest of the configuration equal, the number *)
(* of distinct entries format_tree shows with m' is at least the number it *)
(* shows with m.                                                           *)
(***************************************************************************)
C11_Monotone ==
    (pc = "done" /\ previous.ran /\ previous.max_lines >= 1)
    => DistinctEntries(output) >= previous.shown

(***************************************************************************)
(* C12.  In every directory visit whose number of children N is at most    *)
(* the effective budget min(B, dir_limit), the section is head_count = N,  *)
(* tail_count = 0, nothing hidden: every child is planned for display and  *)
(* no summary line is.                                                     *)
(***************************************************************************)
C12_AllPlannedWhenFits ==
    \A v \in 1..Len(visits) :
        Len(visits[v].items) <= Min(visits[v].budget, config.dir_limit) =>
            visits[v].section = [head_count |-> Len(visits[v].items),
                                 tail_count |-> 0, total_hidden |-> 0]

\* a visit of several children that exactly fill the effective budget
C12_Witness ==
    \E v \in 1..Len(visits) :
        /\ Len(visits[v].items) >= 2
        /\ Len(visits[v].items) = Min(visits[v].budget, config.dir_limit)

(***************************************************************************)
(* C13.  For every N >= 1 and every budget B >= 0 (B = 0 and B = 1         *)
(* included) calculate_display_section(N, B) returns non-negative counts   *)
(* with head_count + tail_count + total_hidden = N exactly.                *)
(***************************************************************************)
C13_SectionSumsToTotal ==
    (pc = "done" /\ call.fn = "calculate_display_section" /\ call.total >= 1) =>
        /\ call.result.head_count >= 0
        /\ call.result.tail_count >= 0
        /\ call.result.total_hidden >= 0
        /\ call.result.head_count + call.result.tail_count + call.result.total_hidden
              = call.total

\* a section planned with budget 0 for several children, some of them hidden
C13_Witness ==
    /\ pc = "done" /\ call.fn = "calculate_display_section"
    /\ call.total >= 2 /\ call.budget = 0
    /\ call.result.total_hidden >= 1

\* floor(a / 3^d), by d divisions by 3
RECURSIVE DivPow3(_, _)
DivPow3(a, d) == IF d = 0 THEN a ELSE DivPow3(a \div 3, d - 1)

\* the planner the budget is specified by
ReferenceBudget(n, d, remaining) ==
    LET available == Max(remaining - (2 + 2 * d), 0)
    IN  IF remaining = 0 \/ n = 0 THEN 0
        ELSE IF available = 0 THEN 0
        ELSE IF d = 0 THEN Max(1, Min(available, n))
        ELSE Max(1, Min(DivPow3(available, d), n))

(***************************************************************************)
(* C14.  calculate_level_budget agrees with the reference planner for      *)
(* every N >= 0, depth >= 0 and lines_remaining >= 0: it returns, and its  *)
(* result B is 0 if lines_remaining = 0 or N = 0, else with available =    *)
(* max(lines_remaining - (2 + 2 * depth), 0) it is 0 if available = 0,     *)
(* max(1, min(available, N)) at depth 0 and max(1, min(available div       *)
(* 3^depth, N)) below; always 0 <= B <= N and B <= available.              *)
(***************************************************************************)
C14_BudgetMatchesReference ==
    call.fn = "calculate_level_budget" =>
        /\ pc # "panicked"
        /\ pc = "done" =>
              LET B == call.result.value
                  available == Max(lines_remaining - (2 + 2 * depth), 0)
              IN  /\ B = ReferenceBudget(call.total, depth, lines_remaining)
                  /\ 0 <= B /\ B <= call.total
                  /\ B <= available

\* a step of a running format_tree that appends a line or opens a show_items call
DoesWork == pc = "running" /\ (Len(output') > Len(output) \/ Len(stack') > Len(stack))

(***************************************************************************)
(* C15.  Termination: for every (finite) tree and every configuration with *)
(* max_lines >= 1 a format_tree call that has begun eventually returns,    *)
(* with every show_items call it made returned; and every step that emits  *)
(* a line or opens a nested call takes exactly one line off                *)
(* lines_remaining.                                                        *)
(***************************************************************************)
C15_Terminates ==
    /\ (config.max_lines >= 1) =>
           [](pc = "running" =>
                 <>(pc = "done" /\ \A v \in 1..Len(visits) : visits[v].returned))
    /\ [][DoesWork => lines_remaining' = lines_remaining - 1]_vars

\* the connector of the entry line of the entry at path p
ConnectorOf(p) == output[LineOfEntry(p)].connector

(***************************************************************************)
(* C16.  When every child of a directory is emitted, the line of the last  *)
(* child uses the corner connector and the line of every other child the   *)
(* branch connector.  Instance: src with 3 files, max_lines = 20,          *)
(* dir_limit = 20 shows all three, 3.rs with the corner and 2.rs with the  *)
(* branch connector.                                                       *)
(***************************************************************************)
C16_LastChildCorner ==
    /\ \A v \in Returned :
          LET items == visits[v].items
          IN  (\A i \in 1..Len(items) : EntryShown(items[i].path)) =>
                  \A i \in 1..Len(items) :
                      ConnectorOf(items[i].path) =
                          IF i = Len(items) THEN TREE_CORNER ELSE TREE_BRANCH
    /\ (pc = "done" /\ root = Src(3) /\ config.max_lines = 20 /\ config.dir_limit = 20) =>
          LET src == root.children[1]
          IN  /\ \A i \in 1..3 : EntryShown(src.children[i].path)
              /\ ConnectorOf(src.children[3].path) = TREE_CORNER
              /\ ConnectorOf(src.children[2].path) = TREE_BRANCH

\* the instance: src with 3 files rendered with max_lines = 20, dir_limit = 20
C16_Witness ==
    /\ pc = "done" /\ root = Src(3)
    /\ config.max_lines = 20 /\ config.dir_limit = 20
    /\ EntryShown(root.children[1].children[3].path)

\* the entry e and everything below it
RECURSIVE EntriesOf(_)
EntriesOf(e) == {e} \cup UNION {EntriesOf(e.children[i]) : i \in 1..Len(e.children)}

EntryAt(p) == CHOOSE e \in EntriesOf(root) : e.path = p

\* a step that appends an entry line; the item it was formatted from
EmitsEntry ==
    /\ pc = "running"
    /\ Len(output') = Len(output) + 1
    /\ output'[Len(output')].kind = "entry"
EmittedItem == CHOOSE it \in Range(Top.items) : it.path = output'[Len(output')].path

\* the step opens a show_items call on the children of the emitted item
Descends ==
    /\ Len(stack') = Len(stack) + 1
    /\ stack'[Len(stack')].phase = "enter"
    /\ stack'[Len(stack')].dir = EmittedItem.path
    /\ stack'[Len(stack')].items = EmittedItem.children

(***************************************************************************)
(* C17.  show_items descends into an emitted entry if and only if it is a  *)
(* directory, lines remain after its line, it is not ignored while         *)
(* show_system_dirs is off and not filtered while show_filtered is off.    *)
(* So with show_system_dirs off no entry below an ignored directory is     *)
(* ever emitted; and the line of an ignored directory carries              *)
(* "[folded: system]" in that mode and "[system]" with show_system_dirs    *)
(* on.                                                                     *)
(***************************************************************************)
C17_DescentRule ==
    /\ [][EmitsEntry =>
            (Descends <=>
                /\ EmittedItem.is_dir
                /\ lines_remaining' > 0
                /\ ~(EmittedItem.is_gitignored /\ ~config.show_system_dirs)
                /\ ~(EmittedItem.filtered_by # None /\ ~config.show_filtered))]_vars
    /\ [](\A k \in Lines :
            output[k].kind = "entry" =>
                /\ ~config.show_system_dirs =>
                      \A e \in EntriesOf(root) :
                          (e.is_gitignored /\ e.is_dir /\ e.path # output[k].path)
                          => ~IsPrefix(e.path, output[k].path)
                /\ (EntryAt(output[k].path).is_gitignored /\ EntryAt(output[k].path).is_dir) =>
                      output[k].marker = IF config.show_system_dirs
                                         THEN "[system]" ELSE "[folded: system]")

\* a finished run with show_system_dirs off that emitted an ignored
\* directory which has children and left lines unused
C17_Witness ==
    /\ pc = "done" /\ ~config.show_system_dirs /\ lines_remaining > 0
    /\ \E k \in Lines :
          /\ output[k].kind = "entry"
          /\ output[k].marker = "[folded: system]"
          /\ EntryAt(output[k].path).children # <<>>

(***************************************************************************)
(* C18.  An entry line carries the bracketed filter annotation only when   *)
(* the entry is filtered and show_filtered is on; with show_filtered off   *)
(* no emitted line contains a filter annotation.                           *)
(***************************************************************************)
C18_AnnotationOnlyWhenShown ==
    \A k \in Lines :
        (output[k].kind = "entry" /\ output[k].annotation # None) =>
            /\ EntryAt(output[k].path).filtered_by # None
            /\ config.show_filtered

(***************************************************************************)
(* C18, amended.  An entry line carries the bracketed filter annotation    *)
(* of its entry exactly when the entry has one and is not an ignored       *)
(* directory (whose line carries the system marker instead), whatever      *)
(* show_filtered is.                                                       *)
(***************************************************************************)
C18_AnnotationWheneverPresent ==
    \A k \in Lines :
        output[k].kind = "entry" =>
            LET e == EntryAt(output[k].path)
            IN  output[k].annotation =
                    IF e.is_gitignored /\ e.is_dir THEN None ELSE e.filter_annotation

\* with show_filtered off, the line of a filtered directory with its annotation
C18_Witness ==
    /\ ~config.show_filtered
    /\ \E k \in Lines :
          /\ output[k].kind = "entry"
          /\ EntryAt(output[k].path).filter_annotation # None
          /\ output[k].annotation # None

\* the entry lines directly under the directory at path dir
ChildLines(dir) ==
    {k \in Lines : /\ output[k].kind = "entry"
                   /\ SubSeq(output[k].path, 1, Len(output[k].path) - 1) = dir}

(***************************************************************************)
(* C19.  dir_limit caps every directory: for every tree and configuration  *)
(* (dir_limit = 0 and dir_limit = 1 included) the number of child entry    *)
(* lines emitted directly under any one directory, head and tail together, *)
(* never exceeds dir_limit.                                                *)
(***************************************************************************)
C19_DirLimitCaps ==
    config.max_lines >= 1 =>
        \A v \in 1..Len(visits) :
            Cardinality(ChildLines(visits[v].dir)) <= config.dir_limit

\* the scan of the subdirectory e of the scanned path fails: the recursive
\* call on it returns Err (its fs::metadata, its read_dir, or a `?` of its
\* own loop)
SubdirectoryFails(e) ==
    /\ e.is_dir
    /\ call.max_depth > 1
    /\ ~scan_directory(<<e.name>>, e, e.name, call.max_depth - 1,
                       config.show_system_dirs, config.show_filtered).ok

\* the calls scan_directory makes for the scanned path itself and for its
\* listing succeed, and the scan of some subdirectory fails
OnlySubdirectoriesFail ==
    /\ call.fs.metadata_ok /\ call.fs.times_ok /\ call.fs.read_dir_ok
    /\ \A i \in 1..Len(call.fs.entries) :
          call.fs.entries[i].entry_metadata_ok /\ call.fs.entries[i].times_ok
    /\ \E i \in 1..Len(call.fs.entries) : SubdirectoryFails(call.fs.entries[i])

(***************************************************************************)
(* C20.  When scanning one subdirectory fails (read_dir or metadata        *)
(* error), scan_directory of the parent still succeeds, the failed         *)
(* subdirectory is among the parent's children as a directory entry with   *)
(* an empty children list, and its siblings are scanned: the result has    *)
(* one child per listed entry, in the order of the listing.                *)
(***************************************************************************)
C20_FailedSubdirectoryKept ==
    (call.fn = "scan_directory" /\ pc # "start" /\ OnlySubdirectoriesFail) =>
        /\ call.result.ok
        /\ Len(call.result.entry.children) = Len(call.fs.entries)
        /\ \A i \in 1..Len(call.fs.entries) :
              /\ call.result.entry.children[i].name = call.fs.entries[i].name
              /\ SubdirectoryFails(call.fs.entries[i]) =>
                    /\ call.result.entry.children[i].is_dir
                    /\ call.result.entry.children[i].children = <<>>

\* the visit of the root's children and the positions its section selects
RootVisit == visits[1]
SelectedAtRoot ==
    LET n == Len(RootVisit.items)
        sec == RootVisit.section
    IN  (1..Min(sec.head_count, n)) \cup ((n - sec.tail_count + 1)..n)

(***************************************************************************)
(* C21.  No starvation of shallower siblings: when format_tree returns,    *)
(* every child of the root that the root's section selected into the head  *)
(* or the tail has its entry line in the output; the subtree of an earlier *)
(* root-level directory never uses up the lines before a selected later    *)
(* root child is shown.                                                    *)
(***************************************************************************)
C21_NoStarvation ==
    (pc = "done" /\ config.max_lines >= 1 /\ visits # <<>>) =>
        \A i \in SelectedAtRoot : EntryShown(RootVisit.items[i].path)

\* the innermost show_items call was handed a non-empty list while lines
\* remain and has not emitted a child yet
AwaitsFirstChild ==
    /\ pc = "running" /\ stack # <<>>
    /\ \/ Top.phase = "enter" /\ Top.items # <<>> /\ lines_remaining > 0
       \/ Top.phase = "head" /\ Top.i = 0

\* the step appends the entry line of the first child of the innermost call
EmitsFirstChild ==
    /\ Len(output') = Len(output) + 1
    /\ output'[Len(output')].kind = "entry"
    /\ output'[Len(output')].path = Top.items[1].path

\* the entry line k of the output is a directory that show_items descends
\* into (C17) and that has children
DescentEligible(k) ==
    /\ output[k].kind = "entry"
    /\ EntryAt(output[k].path).is_dir
    /\ EntryAt(output[k].path).children # <<>>
    /\ ~should_skip(EntryAt(output[k].path), config)

(***************************************************************************)
(* C22.  Forward progress: a show_items call that was handed a non-empty   *)
(* list while lines_remaining > 0 emits at least one child entry line: its *)
(* steps up to that line only plan the section and then emit the first     *)
(* child, and that line does come.  Hence in the returned output every     *)
(* directory line that is eligible for descent, has children and leaves    *)
(* lines_remaining > 0 is directly followed by the line of its first       *)
(* child.                                                                  *)
(***************************************************************************)
C22_ForwardProgress ==
    /\ [][AwaitsFirstChild =>
             /\ pc' = "running"
             /\ \/ Len(stack') = Len(stack) /\ Top'.phase = "head" /\ Top'.i = 0
                \/ EmitsFirstChild]_vars
    /\ [](AwaitsFirstChild => <>(~AwaitsFirstChild \/ Len(stack) = 0))
    /\ []((pc = "done" /\ config.max_lines >= 1) =>
             \A k \in Lines :
                (DescentEligible(k) /\ config.max_lines - k > 0) =>
                    /\ k + 1 <= Len(output)
                    /\ output[k + 1].kind = "entry"
                    /\ output[k + 1].path = EntryAt(output[k].path).children[1].path)

(***************************************************************************)
(* C23.  Budget conservation: in a format_tree run with max_lines >= 1     *)
(* lines_remaining never increases, every step that appends to the output  *)
(* appends one line (root marker, entry line or summary line) and takes    *)
(* exactly 1 off lines_remaining, no other step changes either, and so in  *)
(* every reachable state Len(output) + lines_remaining = max_lines.        *)
(***************************************************************************)
C23_BudgetConservation ==
    /\ [][config.max_lines >= 1 =>
             /\ lines_remaining' <= lines_remaining
             /\ \/ output' = output /\ lines_remaining' = lines_remaining
                \/ /\ Len(output') = Len(output) + 1
                   /\ SubSeq(output', 1, Len(output)) = output
                   /\ lines_remaining' = lines_remaining - 1]_vars
    /\ [](config.max_lines >= 1 => Len(output) + lines_remaining = config.max_lines)

\* a returned output with the root marker, entry lines and a summary line,
\* and lines to spare
C23_Witness ==
    /\ pc = "done"
    /\ lines_remaining > 0
    /\ \E k \in Lines : output[k].kind = "hidden"
    /\ \E k \in Lines : output[k].kind = "entry" /\ Len(output[k].path) = 2
    /\ Len(output) + lines_remaining = config.max_lines

(***************************************************************************)
(* C24.  The section planned for a directory fits the budget it was given: *)
(* for every N and B with N > B (B = 0 and B = 1 included),                *)
(* calculate_display_section(N, B) returns head_count + tail_count + 1     *)
(* <= B: the shown children and the line kept for the summary.             *)
(***************************************************************************)
C24_SectionFitsBudget ==
    (pc = "done" /\ call.fn = "calculate_display_section" /\ call.total > call.budget) =>
        call.result.head_count + call.result.tail_count + 1 <= call.budget

\* the show_items call recorded as visit v evaluated the decay divisor:
\* depth > 0 and lines left over after the structure lines
DivisorEvaluated(v) ==
    /\ visits[v].depth > 0
    /\ saturating_sub(visits[v].lines_in, 2 + saturating_mul(visits[v].depth, 2)) > 0

\* the innermost call is about to evaluate a divisor that leaves the range
DivisorOverflows ==
    /\ stack # <<>> /\ Top.phase = "enter"
    /\ Top.items # <<>> /\ lines_remaining > 0
    /\ depth > 0
    /\ saturating_sub(lines_remaining, 2 + saturating_mul(depth, 2)) > 0
    /\ pow3_overflows(depth)

(***************************************************************************)
(* C25.  At every nesting depth at which calculate_level_budget evaluates  *)
(* the decay divisor during a render with max_lines >= 1, 3^depth is       *)
(* representable in usize without overflow: the render neither aborts      *)
(* there nor computes a budget from a wrapped power.                       *)
(***************************************************************************)
C25_DivisorRepresentable ==
    config.max_lines >= 1 =>
        /\ ~DivisorOverflows
        /\ pc # "panicked"
        /\ \A v \in 1..Len(visits) :
              DivisorEvaluated(v) => ~pow3_overflows(visits[v].depth)

\* the children of the directory at path dir that have no entry line
Unshown(dir) ==
    {i \in 1..Len(EntryAt(dir).children) : ~EntryShown(EntryAt(dir).children[i].path)}

(***************************************************************************)
(* C26.  Every summary line "... N items hidden ..." is accurate in the    *)
(* output format_tree returns: N is the number of children of that         *)
(* directory that have no entry line in it, also when the lines run out    *)
(* later, during the directory's tail section.                             *)
(***************************************************************************)
C26_SummaryAccurate ==
    (pc = "done" /\ config.max_lines >= 1) =>
        \A k \in Lines :
            output[k].kind = "hidden" => output[k].n = Cardinality(Unshown(output[k].dir))

\* the positions of the children of visit v that have an entry line
ShownOf(v) == {i \in 1..Len(visits[v].items) : EntryShown(visits[v].items[i].path)}

\* the output lines of the child at position i of visit v and of its subtree
SubtreeLines(v, i) ==
    {k \in Lines : output[k].kind \in {"entry", "hidden"} /\
        IsPrefix(visits[v].items[i].path,
                 IF output[k].kind = "entry" THEN output[k].path ELSE output[k].dir)}

(***************************************************************************)
(* C27.  Within one directory visit the emitted children are, in list      *)
(* order, a prefix of the child list followed by a suffix of it; head and  *)
(* tail never overlap (tail_start >= head_count); no entry has two lines;  *)
(* and the summary line, when emitted, comes after the lines of the head   *)
(* children and their subtrees and before the first tail line.             *)
(***************************************************************************)
C27_PrefixThenSuffix ==
    config.max_lines >= 1 =>
        /\ \A k1, k2 \in Lines :
              (output[k1].kind = "entry" /\ output[k2].kind = "entry"
                  /\ output[k1].path = output[k2].path) => k1 = k2
        /\ \A v \in 1..Len(visits) :
              LET n == Len(visits[v].items)
                  sec == visits[v].section
              IN  /\ tail_start(n, sec) >= sec.head_count
                  /\ HiddenShown(visits[v].dir) =>
                        /\ \A i \in 1..sec.head_count : \A k \in SubtreeLines(v, i) :
                              k < LineOfHidden(visits[v].dir)
                        /\ \A i \in (tail_start(n, sec) + 1)..n : \A k \in SubtreeLines(v, i) :
                              k > LineOfHidden(visits[v].dir)
                  /\ visits[v].returned =>
                        \E a \in 0..n, b \in 1..(n + 1) :
                            ShownOf(v) = (1..a) \cup (b..n)

\* the lines of the level of directory dir: the entry lines of its children
\* and its summary line
LevelLines(dir) ==
    ChildLines(dir) \cup {k \in Lines : output[k].kind = "hidden" /\ output[k].dir = dir}

(***************************************************************************)
(* C28.  Legible tree shape: in the output format_tree returns, for every  *)
(* directory level that has at least one line, the last line of the level  *)
(* (entry line or summary line) uses the corner connector and no earlier   *)
(* line of the level does, so that a line with the branch connector is     *)
(* always followed later by another line of its level.                     *)
(***************************************************************************)
C28_LastLineCorner ==
    (pc = "done" /\ config.max_lines >= 1) =>
        \A v \in 1..Len(visits) :
            LET level == LevelLines(visits[v].dir)
            IN  \A k \in level :
                   (output[k].connector = TREE_CORNER) <=> (k = MaxOf(level))

\* the scanned entry e is excluded from deep traversal under the flags
ExcludedFromTraversal(e) ==
    \/ e.is_gitignored /\ ~config.show_system_dirs
    \/ e.filtered_by # None /\ ~config.show_filtered

(***************************************************************************)
(* C29.  scan_directory does not traverse below a subdirectory, other than *)
(* the requested root path, that is gitignored while show_system_dirs is   *)
(* off or rule-filtered while show_filtered is off: every such entry of    *)
(* the returned tree has an empty children list.                           *)
(***************************************************************************)
C29_FilteredNotTraversed ==
    (call.fn = "scan_directory" /\ pc = "done") =>
        \A e \in EntriesOf(call.result.entry) :
            (e.path # <<>> /\ e.is_dir /\ ExcludedFromTraversal(e)) => e.children = <<>>

\* the pattern that decides under "last match wins": the verdict of the
\* last matching pattern of the list, not ignored when none matches
LastMatching(patterns) ==
    LET M == {i \in 1..Len(patterns) : patterns[i].matches}
    IN  IF M = {} THEN FALSE ELSE ~patterns[MaxOf(M)].is_negated

(***************************************************************************)
(* C30.  With one .gitignore file in the chain,                            *)
(* GitIgnoreContext::is_ignored gives the verdict of                       *)
(* GitIgnore::is_path_ignored on that file: the patterns are evaluated in  *)
(* order and the last matching pattern decides, so a negated pattern       *)
(* un-ignores a path matched earlier and a non-negated pattern after a     *)
(* matching negated one ignores it again.                                  *)
(***************************************************************************)
C30_LastMatchDecides ==
    (call.fn = "is_ignored" /\ pc = "done" /\ Len(call.gitignores) = 1) =>
        /\ call.result = is_path_ignored(call.gitignores[1])
        /\ ~call.gitignores[1].system_match =>
              call.result = LastMatching(call.gitignores[1].patterns)

====
